---- MODULE Spec2Model ----
(***************************************************************************)
(* jsondiff.py: the recursive comparator jsondiff/diff with its ignore     *)
(* rules, and the key fixup pass fixup_keys.                               *)
(*                                                                         *)
(* Python strings (str, bytes payloads, paths, glob patterns) are          *)
(* sequences of one-character strings.  A Python value is a record         *)
(* [t |-> type name, v |-> payload]; a float carries its value in units of *)
(* 10^-6 and a nan flag.  A dict is a function from key values to values,  *)
(* a list is a sequence of values.                                         *)
(***************************************************************************)
EXTENDS Integers, Sequences, FiniteSets, TLC

VARIABLES d1, d2, ignore, set_sort, hashrev, out, data, fixed, pc

vars == <<d1, d2, ignore, set_sort, hashrev, out, data, fixed, pc>>

----------------------------------------------------------------------------
(* Python values *)

FloatUnit == 1000000

NoneV == [t |-> "NoneType", v |-> 0]
BoolV(b) == [t |-> "bool", v |-> b]
IntV(n) == [t |-> "int", v |-> n]
FloatV(m) == [t |-> "float", v |-> m, nan |-> FALSE]
NaN == [t |-> "float", v |-> 0, nan |-> TRUE]
StrV(s) == [t |-> "str", v |-> s]
BytesV(s) == [t |-> "bytes", v |-> s]
ListV(s) == [t |-> "list", v |-> s]
DictV(f) == [t |-> "dict", v |-> f]

\* isinstance(d, Number): bool is a subclass of int, and int and float are Numbers
IsNumber(d) == d.t \in {"bool", "int", "float"}

\* isinstance(d, (int, str, bytes)): True and False are instances of int
IsSetScalar(d) == d.t \in {"bool", "int", "str", "bytes"}

IsNaN(d) == d.t = "float" /\ d.nan

\* the numeric value of a Number, in units of 10^-6
Num(d) == IF d.t = "float" THEN d.v ELSE d.v * FloatUnit

\* d1 == d2 on scalars: Numbers compare by numeric value across bool, int and
\* float (nan equals nothing), every other scalar by type and payload
PyEq(a, b) ==
    IF IsNumber(a) /\ IsNumber(b)
    THEN ~IsNaN(a) /\ ~IsNaN(b) /\ Num(a) = Num(b)
    ELSE a.t = b.t /\ a.v = b.v

Abs(x) == IF x < 0 THEN -x ELSE x
Max(x, y) == IF x >= y THEN x ELSE y
Min(x, y) == IF x <= y THEN x ELSE y

\* abs_tol=0.00001 and the default rel_tol=1e-09 of math.isclose
AbsTol == 10
RelTolInv == 1000000000

\* math.isclose(a, b, abs_tol=0.00001) on two floats:
\* abs(a-b) <= max(rel_tol * max(abs(a), abs(b)), abs_tol), false on a nan.
\* The arithmetic is exact; the floats of the model lie off the boundary,
\* where the rounding of a double could decide.
isclose(a, b) ==
    /\ ~a.nan /\ ~b.nan
    /\ \/ a.v = b.v
       \/ Abs(a.v - b.v) <= Max(Max(Abs(a.v), Abs(b.v)) \div RelTolInv, AbsTol)

----------------------------------------------------------------------------
(* str(), os.path.join, fnmatch *)

Digit(n) == <<"0", "1", "2", "3", "4", "5", "6", "7", "8", "9">>[n + 1]

RECURSIVE IntStr(_)
IntStr(n) ==
    IF n < 0 THEN <<"-">> \o IntStr(-n)
    ELSE IF n < 10 THEN <<Digit(n)>>
    ELSE IntStr(n \div 10) \o <<Digit(n % 10)>>

\* str(d) of a key, a list index or a set element
Str(d) ==
    CASE d.t = "int" -> IntStr(d.v)
      [] d.t = "bool" -> IF d.v = 1 THEN <<"T", "r", "u", "e">>
                                    ELSE <<"F", "a", "l", "s", "e">>
      [] d.t = "str" -> d.v
      [] d.t = "bytes" -> <<"b", "'">> \o d.v \o <<"'">>
      [] d.t = "NoneType" -> <<"N", "o", "n", "e">>

\* posixpath.join(a, b): an absolute b replaces a; otherwise b is appended,
\* after a separator unless a is empty or already ends with one
path_join(a, b) ==
    IF b # <<>> /\ b[1] = "/" THEN b
    ELSE IF a = <<>> \/ a[Len(a)] = "/" THEN a \o b
    ELSE a \o <<"/">> \o b

\* fnmatch(name, pat) for patterns of literals, * and ? (no character class):
\* the whole name must match, * matches any run of characters, "/" included
RECURSIVE fnmatch(_, _)
fnmatch(name, pat) ==
    IF pat = <<>> THEN name = <<>>
    ELSE IF pat[1] = "*"
         THEN fnmatch(name, Tail(pat)) \/ (name # <<>> /\ fnmatch(Tail(name), pat))
    ELSE IF pat[1] = "?"
         THEN name # <<>> /\ fnmatch(Tail(name), Tail(pat))
    ELSE name # <<>> /\ name[1] = pat[1] /\ fnmatch(Tail(name), Tail(pat))

\* a rule set that ignores a path only when every rule matches it
_ignore_all(ign, path) == \A f \in ign : fnmatch(path, f)

\* _ignore(path) under the rule set ign
_ignore(ign, path) == \E f \in ign : fnmatch(path, f)

----------------------------------------------------------------------------
(* iteration over hash sets *)

RECURSIVE SeqOf(_)
SeqOf(S) ==
    IF S = {} THEN <<>>
    ELSE LET x == CHOOSE y \in S : TRUE IN <<x>> \o SeqOf(S \ {x})

Reverse(s) == [i \in 1..Len(s) |-> s[Len(s) + 1 - i]]

\* the order in which a for loop walks a set: unspecified, one of two orders
Iter(S, rev) == IF rev THEN Reverse(SeqOf(S)) ELSE SeqOf(S)

RECURSIVE Flatten(_)
Flatten(ss) == IF ss = <<>> THEN <<>> ELSE Head(ss) \o Flatten(Tail(ss))

\* set(l): equal elements (1 and True) collapse to the first one inserted
PySet(l) == {l[i] : i \in {j \in 1..Len(l) : \A h \in 1..(j - 1) : ~PyEq(l[h], l[j])}}

\* a set difference that subtracts nothing
PySetDiff_keep(a, b) == a

\* a - b on sets: the elements of a that equal no element of b
PySetDiff(a, b) == {x \in a : \A y \in b : ~PyEq(x, y)}

----------------------------------------------------------------------------
(* jsondiff *)

\* One event of a run: line 36 is a call of diff (no output), every other
\* line is the print statement that wrote a record.  stack is the paths of
\* the diff calls active at the event (for a call: the enclosing calls).
Ev(line, path, stack, a, b, n) ==
    [line |-> line, path |-> path, stack |-> stack, d1 |-> a, d2 |-> b, n |-> n]

\* a removed-key loop that prints without asking _ignore
DictRemoved_unfiltered(a, b, path, ign, here, rev) ==
    LET ks == Iter((DOMAIN a.v) \ (DOMAIN b.v), rev)
    IN [i \in 1..Len(ks) |->
          Ev(44, path_join(path, Str(ks[i])), here, NoneV, NoneV, 0)]

\* lines 41-44: one "-key" record per key of d1 missing in d2, unless ignored
DictRemoved(a, b, path, ign, here, rev) ==
    LET ks == Iter((DOMAIN a.v) \ (DOMAIN b.v), rev)
        Key(k) == path_join(path, Str(k))
    IN Flatten([i \in 1..Len(ks) |->
          IF ~_ignore(ign, Key(ks[i]))
          THEN <<Ev(44, Key(ks[i]), here, NoneV, NoneV, 0)>> ELSE <<>>])

\* lines 48-51: one "+key" record per key of d2 missing in d1, unless ignored
DictAdded(a, b, path, ign, here, rev) ==
    LET ks == Iter((DOMAIN b.v) \ (DOMAIN a.v), rev)
        Key(k) == path_join(path, Str(k))
    IN Flatten([i \in 1..Len(ks) |->
          IF ~_ignore(ign, Key(ks[i]))
          THEN <<Ev(51, Key(ks[i]), here, NoneV, NoneV, 0)>> ELSE <<>>])

\* a dict branch that reports the added keys before the shared ones
DictBranch_addedfirst(removed, shared, added) == removed \o added \o shared

\* lines 41-51: the three loops of the dict branch run one after the other
DictBranch(removed, shared, added) == removed \o shared \o added

\* lines 53-57: the guard of the set branch
SetGuard(a, b, ss) ==
    /\ ss
    /\ a.t = "list" /\ b.t = "list"
    /\ \A i \in 1..Len(a.v) : IsSetScalar(a.v[i])
    /\ \A i \in 1..Len(b.v) : IsSetScalar(b.v[i])

\* lines 59-68: the two lists as sets; one "-key" record per element of d1
\* not in d2, then one "+key" record per element of d2 not in d1
SetBranch(a, b, path, ign, here, rev) ==
    LET s1 == PySet(a.v)
        s2 == PySet(b.v)
        removed == Iter(PySetDiff(s1, s2), rev)
        added == Iter(PySetDiff(s2, s1), rev)
        Key(d) == path_join(path, Str(d))
    IN Flatten([i \in 1..Len(removed) |->
          IF ~_ignore(ign, Key(removed[i]))
          THEN <<Ev(64, Key(removed[i]), here, NoneV, NoneV, 0)>> ELSE <<>>])
       \o Flatten([i \in 1..Len(added) |->
          IF ~_ignore(ign, Key(added[i]))
          THEN <<Ev(68, Key(added[i]), here, NoneV, NoneV, 0)>> ELSE <<>>])

\* a length report that prints one record per surplus element
ListLength_each(n1, n2, path, here) ==
    IF n1 < n2 THEN [i \in 1..(n2 - n1) |-> Ev(72, path, here, NoneV, NoneV, 1)]
    ELSE [i \in 1..(n1 - n2) |-> Ev(74, path, here, NoneV, NoneV, 1)]

\* lines 70-74: the length record of two lists compared in order
ListLength(n1, n2, path, here) ==
    IF n1 < n2 THEN <<Ev(72, path, here, NoneV, NoneV, n2 - n1)>>
    ELSE IF n1 > n2 THEN <<Ev(74, path, here, NoneV, NoneV, n1 - n2)>>
    ELSE <<>>

\* lines 76-77: the path of element n: key is joined to path a second time
ElementPath(path, n) ==
    LET key == path_join(path, Str(IntV(n))) IN path_join(path, key)

RECURSIVE diff(_, _, _, _, _, _, _)
diff(a, b, path, ign, ss, stack, rev) ==
    LET call == <<Ev(36, path, stack, a, b, 0)>>
        here == Append(stack, path)
    IN
    IF _ignore(ign, path) THEN call
    ELSE IF a.t = "dict" /\ b.t = "dict" THEN
        LET shared == Iter((DOMAIN a.v) \cap (DOMAIN b.v), rev)
        IN call \o DictBranch(
              DictRemoved(a, b, path, ign, here, rev),
              Flatten([i \in 1..Len(shared) |->
                 diff(a.v[shared[i]], b.v[shared[i]],
                      path_join(path, Str(shared[i])), ign, ss, here, rev)]),
              DictAdded(a, b, path, ign, here, rev))
    ELSE IF SetGuard(a, b, ss) THEN
        call \o SetBranch(a, b, path, ign, here, rev)
    ELSE IF a.t = "list" /\ b.t = "list" THEN
        LET n1 == Len(a.v)
            n2 == Len(b.v)
        IN call
           \o ListLength(n1, n2, path, here)
           \o Flatten([i \in 1..Min(n1, n2) |->
                 diff(a.v[i], b.v[i], ElementPath(path, i - 1), ign, ss, here, rev)])
    ELSE IF ~(IsNumber(a) /\ IsNumber(b)) /\ a.t # b.t THEN
        call \o <<Ev(79, path, here, a, b, 0)>>
    ELSE IF a.t = "float" /\ b.t = "float" THEN
        call \o (IF ~isclose(a, b) THEN <<Ev(82, path, here, a, b, 0)>> ELSE <<>>)
    ELSE IF ~PyEq(a, b) THEN
        call \o <<Ev(84, path, here, a, b, 0)>>
    ELSE call

jsondiff(_d1, _d2, ign, ss, rev) == diff(_d1, _d2, <<"/">>, ign, ss, <<>>, rev)

----------------------------------------------------------------------------
(* fixup_keys *)

Raise(e) == [t |-> "raise", v |-> e]

\* keys[k]: an index from 0 counts from the front, a negative one from the
\* back; a bool is an int; anything else is no list index
Subscript(keys, k) ==
    IF k.t \notin {"int", "bool"} THEN Raise("TypeError")
    ELSE IF 0 <= k.v /\ k.v < Len(keys) THEN keys[k.v + 1]
    ELSE IF -Len(keys) <= k.v /\ k.v < 0 THEN keys[Len(keys) + k.v + 1]
    ELSE Raise("IndexError")

RECURSIVE helper(_, _, _)
RECURSIVE HelperDict(_, _, _, _, _)
RECURSIVE HelperList(_, _, _, _)

\* {keys[k]: helper(v) for k, v in d.items()}, items walked in the order
\* `items`; a later item with the same name replaces the earlier value
HelperDict(items, d, keys, rev, acc) ==
    IF items = <<>> THEN DictV(acc)
    ELSE LET k == Head(items)
             name == Subscript(keys, k)
         IN IF name.t = "raise" THEN name
            ELSE LET hv == helper(d.v[k], keys, rev)
                 IN IF hv.t = "raise" THEN hv
                    ELSE HelperDict(Tail(items), d, keys, rev,
                            [x \in (DOMAIN acc) \cup {name} |->
                                IF x = name THEN hv ELSE acc[x]])

\* [helper(v) for v in d]
HelperList(l, keys, rev, acc) ==
    IF l = <<>> THEN ListV(acc)
    ELSE LET hv == helper(Head(l), keys, rev)
         IN IF hv.t = "raise" THEN hv
            ELSE HelperList(Tail(l), keys, rev, Append(acc, hv))

helper(d, keys, rev) ==
    IF d.t = "dict" THEN HelperDict(Iter(DOMAIN d.v, rev), d, keys, rev, <<>>)
    ELSE IF d.t = "list" THEN HelperList(d.v, keys, rev, <<>>)
    ELSE d

\* k.decode("utf-8") of a bytes; nothing else in the model has a decode
Decode(k) == IF k.t = "bytes" THEN StrV(k.v) ELSE Raise("AttributeError")

fixup_keys(dat, rev) ==
    IF ~(dat.t = "list" /\ Len(dat.v) = 2 /\ dat.v[2].t = "list")
    THEN Raise("AssertionError")
    ELSE LET obj == dat.v[1]
             raw == dat.v[2].v
         IN IF \E i \in 1..Len(raw) : raw[i].t # "bytes"
            THEN Raise("AttributeError")
            ELSE helper(obj, [i \in 1..Len(raw) |-> Decode(raw[i])], rev)

----------------------------------------------------------------------------
(* inputs *)

MaxLen == 2

Atoms ==
    {NoneV, BoolV(0), BoolV(1), IntV(0), IntV(1), IntV(2),
     FloatV(FloatUnit), FloatV(FloatUnit + 5), FloatV(2 * FloatUnit), NaN,
     StrV(<<"a">>), StrV(<<"1">>), BytesV(<<"a">>)}

ListsOver(E) == {ListV(s) : s \in UNION {[1..n -> E] : n \in 0..MaxLen}}

DictsOver(K, V) == {DictV(f) : f \in UNION {[S -> V] : S \in SUBSET K}}

\* scalars of every type, and the two empty containers
Scalars == Atoms \cup {ListV(<<>>), DictV(<<>>)}

\* flat lists
ListElems == {IntV(1), IntV(2), BoolV(1), StrV(<<"1">>)}

\* flat objects; a key may begin with the path separator
Ka == StrV(<<"a">>)
Kb == StrV(<<"/", "b">>)
Kc == StrV(<<"c">>)
FlatDicts == DictsOver({Ka, Kb, Kc}, {IntV(1), IntV(2)})

\* nested documents
Inner ==
    {DictV(Ka :> IntV(1)),
     DictV((Ka :> IntV(2)) @@ (Kb :> NaN)),
     ListV(<<ListV(<<IntV(2)>>), FloatV(FloatUnit)>>)}
Nested == DictsOver({Ka, Kb}, Inner) \cup ListsOver(Inner)

\* the documents of the worked scenarios
Kbb == StrV(<<"b">>)
L123 == ListV(<<IntV(1), IntV(2), IntV(3)>>)
Examples ==
    {L123, ListV(<<IntV(1), IntV(2)>>), ListV(<<>>),
     DictV((Ka :> IntV(1)) @@ (Kbb :> IntV(2))),
     DictV((Kbb :> IntV(2)) @@ (Kc :> IntV(3))),
     DictV(Ka :> L123),
     DictV(Ka :> ListV(<<IntV(3), IntV(1), IntV(2)>>)),
     DictV(Ka :> DictV(Kb :> IntV(1))),
     DictV(Ka :> DictV(Kb :> IntV(2)))}

\* glob patterns: the root, the key a of the root, every path of one
\* character below the root, every path that ends in 0
PRoot == <<"/">>
PA == <<"/", "a">>
POne == <<"/", "?">>
PZero == <<"*", "0">>
Patterns == {PRoot, PA, POne, PZero}

\* the documents that are compared with each other, and the rules they are
\* compared under
Families ==
    << [docs |-> Scalars, rules |-> {PRoot}],
       [docs |-> ListsOver(ListElems), rules |-> {POne, PZero}],
       [docs |-> FlatDicts, rules |-> {PA, POne}],
       [docs |-> Nested, rules |-> {PA, PZero}],
       [docs |-> Examples, rules |-> {PA, PZero}] >>

\* [payload, keyNames] documents, well formed and not
KeyTables == ListsOver({BytesV(<<"x">>), BytesV(<<"y">>)})
FixVals ==
    {IntV(7),
     DictV(IntV(0) :> IntV(7)),
     ListV(<<DictV(IntV(1) :> IntV(7))>>)}
Payloads ==
    DictsOver({IntV(-1), IntV(0), IntV(1), IntV(2)}, FixVals)
        \cup {DictV(StrV(<<"0">>) :> IntV(7)), IntV(7)}
FixData ==
    {ListV(<<p, kt>>) : p \in Payloads, kt \in KeyTables}
        \cup {ListV(<<DictV(IntV(0) :> IntV(7)), ListV(<<StrV(<<"x">>)>>)>>),
              ListV(<<DictV(IntV(0) :> IntV(7))>>),
              ListV(<<DictV(IntV(0) :> IntV(7)), IntV(7)>>),
              ListV(<<DictV(IntV(0) :> IntV(7)), ListV(<<>>), IntV(7)>>),
              DictV(IntV(0) :> IntV(7))}

----------------------------------------------------------------------------
(* the program *)

InitDiff ==
    /\ \E i \in 1..Len(Families) :
          /\ d1 \in Families[i].docs
          /\ d2 \in Families[i].docs
          /\ ignore \in SUBSET Families[i].rules
    /\ set_sort \in BOOLEAN
    /\ hashrev \in BOOLEAN
    /\ out = <<>>
    /\ data = NoneV
    /\ fixed = NoneV
    /\ pc = "diff"

InitFixup ==
    /\ data \in FixData
    /\ hashrev \in BOOLEAN
    /\ d1 = NoneV
    /\ d2 = NoneV
    /\ ignore = {}
    /\ set_sort = FALSE
    /\ out = <<>>
    /\ fixed = NoneV
    /\ pc = "fixup"

Init == InitDiff \/ InitFixup

\* jsondiff(base, j, args.ignore, args.set_sort)
Compare ==
    /\ pc = "diff"
    /\ out' = jsondiff(d1, d2, ignore, set_sort, hashrev)
    /\ pc' = "done"
    /\ UNCHANGED <<d1, d2, ignore, set_sort, hashrev, data, fixed>>

\* d = fixup_keys(d); an exception ends the run
FixupKeys ==
    /\ pc = "fixup"
    /\ fixed' = fixup_keys(data, hashrev)
    /\ pc' = IF fixed'.t = "raise" THEN "error" ELSE "fixed"
    /\ UNCHANGED <<d1, d2, ignore, set_sort, hashrev, out, data>>

Next == Compare \/ FixupKeys

Spec == Init /\ [][Next]_vars

----------------------------------------------------------------------------
(* reading a finished run *)

Done == pc = "done"

Root == <<"/">>

IsPrefix(p, q) == Len(p) <= Len(q) /\ SubSeq(q, 1, Len(p)) = p

Calls == {i \in DOMAIN out : out[i].line = 36}
Prints == {j \in DOMAIN out : out[j].line # 36}

\* the call stack inside call i
Inside(i) == Append(out[i].stack, out[i].path)

\* record j was printed by call i itself
Own(i, j) == out[j].line # 36 /\ out[j].stack = Inside(i)

\* call j was made by call i
Child(i, j) == out[j].line = 36 /\ out[j].stack = Inside(i)

\* event j happened during call i
Below(i, j) == IsPrefix(Inside(i), out[j].stack)

Ignored(path) == \E f \in ignore : fnmatch(path, f)

BothDict(i) == out[i].d1.t = "dict" /\ out[i].d2.t = "dict"
BothList(i) == out[i].d1.t = "list" /\ out[i].d2.t = "list"

\* what a record says: the statement that printed it and its arguments
Record(e) == [line |-> e.line, path |-> e.path, d1 |-> e.d1, d2 |-> e.d2, n |-> e.n]
Printed(o) == SelectSeq(o, LAMBDA e : e.line # 36)
Records(o) == {Record(o[j]) : j \in {h \in DOMAIN o : o[h].line # 36}}
RecordSeq(o) == [j \in DOMAIN Printed(o) |-> Record(Printed(o)[j])]

CountIn(o, r) == Cardinality({j \in DOMAIN o : o[j] = r})
SameBag(o1, o2) ==
    /\ Len(o1) = Len(o2)
    /\ \A j \in DOMAIN o1 : CountIn(o1, o1[j]) = CountIn(o2, o1[j])

Perms(s) ==
    {[i \in DOMAIN s |-> s[f[i]]] :
        f \in {g \in [DOMAIN s -> DOMAIN s] : \A x, y \in DOMAIN s : g[x] = g[y] => x = y}}

Elems(l) == {l.v[i] : i \in DOMAIN l.v}

----------------------------------------------------------------------------
(* C1 *)

\* C1: a value compared against itself from the root with no ignore rule
\* prints no record, with set-sort mode on and off.
C1_Reflexivity == (Done /\ d1 = d2 /\ ignore = {}) => Prints = {}

----------------------------------------------------------------------------
(* C2 *)

\* C2: nothing happens at or beneath a node whose path matches an ignore rule:
\* no record is printed for it and no call is made inside it; the children of
\* a node that is not ignored are still compared and reported one by one,
\* whatever happens to their siblings.
C2_IgnorePruning ==
    Done =>
      /\ \A j \in DOMAIN out :
            /\ \A h \in DOMAIN out[j].stack : ~Ignored(out[j].stack[h])
            /\ out[j].line # 36 => ~Ignored(out[j].path)
      /\ \A i \in Calls :
            (~Ignored(out[i].path) /\ BothDict(i)) =>
               LET a == out[i].d1.v
                   b == out[i].d2.v
                   CP(k) == path_join(out[i].path, Str(k))
               IN /\ \A k \in (DOMAIN a) \ (DOMAIN b) :
                        ~Ignored(CP(k)) =>
                           \E j \in Prints :
                              Own(i, j) /\ out[j].line = 44 /\ out[j].path = CP(k)
                  /\ \A k \in (DOMAIN b) \ (DOMAIN a) :
                        ~Ignored(CP(k)) =>
                           \E j \in Prints :
                              Own(i, j) /\ out[j].line = 51 /\ out[j].path = CP(k)
                  /\ \A k \in (DOMAIN a) \cap (DOMAIN b) :
                        \E j \in Calls :
                           /\ Child(i, j) /\ out[j].path = CP(k)
                           /\ out[j].d1 = a[k] /\ out[j].d2 = b[k]

\* an ignored pair of different objects, next to a sibling that is reported
C2_Witness ==
    /\ Done
    /\ \E i \in Calls :
          /\ Ignored(out[i].path) /\ BothDict(i) /\ out[i].d1 # out[i].d2
          /\ \E s \in Calls :
                /\ s # i /\ out[s].stack = out[i].stack /\ ~Ignored(out[s].path)
                /\ \E j \in Prints : Below(s, j)

----------------------------------------------------------------------------
(* C3 *)

\* C3: the records printed under a larger set of ignore rules are among the
\* records printed under the smaller set.
C3_Monotonic ==
    Done =>
      \A R2 \in SUBSET Patterns :
         ignore \subseteq R2 =>
            Records(jsondiff(d1, d2, R2, set_sort, hashrev)) \subseteq Records(out)

\* a larger rule set that removes some records and keeps others
C3_Witness ==
    /\ Done
    /\ \E R2 \in SUBSET Patterns :
          /\ ignore \subseteq R2 /\ ignore # R2 /\ ignore # {}
          /\ Records(jsondiff(d1, d2, R2, set_sort, hashrev)) # {}
          /\ Records(jsondiff(d1, d2, R2, set_sort, hashrev)) # Records(out)

----------------------------------------------------------------------------
(* C4 *)

\* the element types the set branch is specified for
SpecSetScalar(d) == d.t \in {"int", "str", "bytes"}

SetCase(i) ==
    /\ set_sort /\ BothList(i) /\ ~Ignored(out[i].path)
    /\ \A e \in Elems(out[i].d1) \cup Elems(out[i].d2) : SpecSetScalar(e)

\* C4: with set-sort on, two lists of integers, strings and blobs print one
\* "-" record per distinct element found only on the left and one "+" record
\* per distinct element found only on the right (unless that path is
\* ignored), make no call and print nothing else; permuting either list
\* leaves the printed records the same.
C4_SetSort ==
    Done =>
      \A i \in Calls :
         SetCase(i) =>
            LET p == out[i].path
                L == Elems(out[i].d1) \ Elems(out[i].d2)
                R == Elems(out[i].d2) \ Elems(out[i].d1)
                At(S, q) == {e \in S : path_join(p, Str(e)) = q}
                Got(line, q) ==
                   {j \in Prints : Own(i, j) /\ out[j].line = line /\ out[j].path = q}
                mine == SelectSeq(out, LAMBDA e : e.line # 36 /\ e.stack = Inside(i))
            IN /\ \A j \in DOMAIN out :
                     Below(i, j) => (Own(i, j) /\ out[j].line \in {64, 68})
               /\ \A j \in Prints :
                     Own(i, j) =>
                        \/ out[j].line = 64 /\ At(L, out[j].path) # {}
                        \/ out[j].line = 68 /\ At(R, out[j].path) # {}
               /\ \A e \in L :
                     LET q == path_join(p, Str(e))
                     IN Cardinality(Got(64, q)) =
                           IF Ignored(q) THEN 0 ELSE Cardinality(At(L, q))
               /\ \A e \in R :
                     LET q == path_join(p, Str(e))
                     IN Cardinality(Got(68, q)) =
                           IF Ignored(q) THEN 0 ELSE Cardinality(At(R, q))
               /\ \A pa \in Perms(out[i].d1.v), pb \in Perms(out[i].d2.v) :
                     SameBag(Printed(diff(ListV(pa), ListV(pb), p, ignore, set_sort,
                                          out[i].stack, hashrev)),
                             mine)

\* two lists in set mode whose left one holds two different elements in an
\* order that can be permuted, with a "-" and a "+" record printed
C4_Witness ==
    /\ Done
    /\ \E i \in Calls :
          /\ SetCase(i)
          /\ Len(out[i].d1.v) >= 2 /\ out[i].d1.v[1] # out[i].d1.v[2]
          /\ \E j \in Prints : Own(i, j) /\ out[j].line = 64
          /\ \E j \in Prints : Own(i, j) /\ out[j].line = 68

----------------------------------------------------------------------------
(* C5 *)

\* two lists compared position by position: set-sort is off, or an element is
\* a float, a null, an object or a list
OrderedCase(i) ==
    /\ BothList(i) /\ ~Ignored(out[i].path)
    /\ \/ ~set_sort
       \/ \E e \in Elems(out[i].d1) \cup Elems(out[i].d2) :
             e.t \in {"float", "NoneType", "dict", "list"}

\* C5: two lists of lengths n1 and n2 compared in order print one length
\* record when n1 # n2 ("+" with n2-n1 when n1 < n2, "-" with n1-n2 when
\* n1 > n2) and none when n1 = n2; the elements 0..min(n1,n2)-1 are compared,
\* each once, and nothing is compared or printed for a later index.
\* [1,2,3] against [1,2] prints the single record "-" at the root with count 1.
C5_OrderedLength ==
    Done =>
      /\ \A i \in Calls :
            OrderedCase(i) =>
               LET n1 == Len(out[i].d1.v)
                   n2 == Len(out[i].d2.v)
                   m == IF n1 <= n2 THEN n1 ELSE n2
                   own == {j \in Prints : Own(i, j)}
                   kids == {j \in Calls : Child(i, j)}
                   PathOf(n) == path_join(out[i].path, IntStr(n))
               IN /\ Cardinality(own) = IF n1 = n2 THEN 0 ELSE 1
                  /\ \A j \in own :
                        /\ out[j].path = out[i].path
                        /\ n1 < n2 => out[j].line = 72 /\ out[j].n = n2 - n1
                        /\ n1 > n2 => out[j].line = 74 /\ out[j].n = n1 - n2
                  /\ Cardinality(kids) = m
                  /\ \A n \in 0..(m - 1) :
                        \E j \in kids :
                           /\ out[j].path = PathOf(n)
                           /\ out[j].d1 = out[i].d1.v[n + 1]
                           /\ out[j].d2 = out[i].d2.v[n + 1]
                  /\ \A n \in m..(Max(n1, n2) - 1) :
                        \A j \in DOMAIN out :
                           Below(i, j) =>
                              /\ out[j].path # PathOf(n)
                              /\ ~IsPrefix(Append(Inside(i), PathOf(n)), out[j].stack)
      /\ (d1 = L123 /\ d2 = ListV(<<IntV(1), IntV(2)>>) /\ ~set_sort) =>
            RecordSeq(out) = <<Record(Ev(74, Root, <<>>, NoneV, NoneV, 1))>>

\* a longer list against a shorter, non-empty one whose elements differ
C5_Witness ==
    /\ Done
    /\ \E i \in Calls :
          /\ OrderedCase(i)
          /\ Len(out[i].d1.v) > Len(out[i].d2.v) /\ Len(out[i].d2.v) >= 1
          /\ \E j \in Prints : Own(i, j) /\ out[j].line = 74
          /\ \E j \in Prints : Below(i, j) /\ ~Own(i, j)

----------------------------------------------------------------------------
(* C6 *)

\* C6: in the stream of an object pair the "-" records of its keys come
\* first, then everything that comparing the shared keys does, then its "+"
\* records. {a:1,b:2} against {b:2,c:3} prints -/a then +/c.
C6_PassOrder ==
    Done =>
      /\ \A i \in Calls :
            (BothDict(i) /\ ~Ignored(out[i].path)) =>
               \A x, y \in DOMAIN out :
                  (Below(i, x) /\ Below(i, y) /\ x < y) =>
                     /\ ~(Own(i, x) /\ out[x].line = 51 /\ ~(Own(i, y) /\ out[y].line = 51))
                     /\ ~(Own(i, y) /\ out[y].line = 44 /\ ~(Own(i, x) /\ out[x].line = 44))
      /\ ( /\ d1 = DictV((Ka :> IntV(1)) @@ (Kbb :> IntV(2)))
           /\ d2 = DictV((Kbb :> IntV(2)) @@ (Kc :> IntV(3)))
           /\ ignore = {} ) =>
            RecordSeq(out) =
               << Record(Ev(44, <<"/", "a">>, <<>>, NoneV, NoneV, 0)),
                  Record(Ev(51, <<"/", "c">>, <<>>, NoneV, NoneV, 0)) >>

\* an object pair with a removed key, a shared key that prints, and an added key
C6_Witness ==
    /\ Done
    /\ \E i \in Calls :
          /\ BothDict(i)
          /\ \E j \in Prints : Own(i, j) /\ out[j].line = 44
          /\ \E j \in Prints : Own(i, j) /\ out[j].line = 51
          /\ \E j \in Prints : Below(i, j) /\ ~Own(i, j)

----------------------------------------------------------------------------
(* C7 *)

\* C7: a pair of values of different types that is neither two objects nor
\* two lists prints exactly one type record, unless it is an integer with a
\* float, which prints a value record when the numbers differ and nothing
\* when they are equal.
C7_TypeMismatch ==
    Done =>
      \A i \in Calls :
         LET a == out[i].d1
             b == out[i].d2
             own == {j \in Prints : Own(i, j)}
         IN (~Ignored(out[i].path) /\ ~BothDict(i) /\ ~BothList(i) /\ a.t # b.t) =>
               IF {a.t, b.t} = {"int", "float"}
               THEN /\ \A j \in own : out[j].line = 84
                    /\ Cardinality(own) = IF ~IsNaN(a) /\ ~IsNaN(b) /\ Num(a) = Num(b)
                                          THEN 0 ELSE 1
               ELSE /\ \A j \in own : out[j].line = 79
                    /\ Cardinality(own) = 1

----------------------------------------------------------------------------
(* C8 *)

\* C8: with set-sort on, two lists of which one holds a float, a boolean, a
\* null, an object or a list are compared in order: a length record when the
\* lengths differ, and one comparison per position of the shorter list.
C8_SetEligibility ==
    (Done /\ set_sort) =>
      \A i \in Calls :
         ( /\ BothList(i) /\ ~Ignored(out[i].path)
           /\ \E e \in Elems(out[i].d1) \cup Elems(out[i].d2) : ~SpecSetScalar(e) ) =>
            LET n1 == Len(out[i].d1.v)
                n2 == Len(out[i].d2.v)
                own == {j \in Prints : Own(i, j)}
            IN /\ Cardinality({j \in Calls : Child(i, j)}) = Min(n1, n2)
               /\ Cardinality(own) = IF n1 = n2 THEN 0 ELSE 1
               /\ \A j \in own : out[j].line \in {72, 74}

----------------------------------------------------------------------------
(* C9 *)

\* parent/segment, the root "/" taking no second separator
Slash(p, seg) == IF p = Root THEN p \o seg ELSE p \o <<"/">> \o seg

IsSuffix(p, q) == Len(p) <= Len(q) /\ SubSeq(q, Len(q) - Len(p) + 1, Len(q)) = p

\* C9: a child is compared and reported at its parent's path extended by one
\* segment, the string of its key or index: element i of a list at p is
\* compared at p/i, key k of an object at p is reported or compared at a path
\* that extends p and ends with the string of k; so the path of every
\* enclosing container is a prefix of the path of every event inside it.
C9_ChildPaths ==
    Done =>
      /\ \A i \in Calls, j \in DOMAIN out :
            (~Ignored(out[i].path) /\ Child(i, j) /\ BothList(i)) =>
               \E n \in 0..(Len(out[i].d1.v) - 1) :
                  out[j].path = Slash(out[i].path, IntStr(n))
      /\ \A i \in Calls, j \in DOMAIN out :
            ( /\ ~Ignored(out[i].path) /\ BothDict(i)
              /\ Child(i, j) \/ (Own(i, j) /\ out[j].line \in {44, 51}) ) =>
               \E k \in (DOMAIN out[i].d1.v) \cup (DOMAIN out[i].d2.v) :
                  /\ IsPrefix(out[i].path, out[j].path)
                  /\ IsSuffix(Str(k), out[j].path)
                  /\ Len(out[j].path) > Len(out[i].path)
      /\ \A j \in DOMAIN out :
            \A h \in DOMAIN out[j].stack : IsPrefix(out[j].stack[h], out[j].path)

----------------------------------------------------------------------------
(* C10 *)

RECURSIVE AllKeys(_)
\* the keys of every object in a document
AllKeys(d) ==
    IF d.t = "dict"
    THEN (DOMAIN d.v) \cup UNION {AllKeys(d.v[k]) : k \in DOMAIN d.v}
    ELSE IF d.t = "list" THEN UNION {AllKeys(d.v[i]) : i \in DOMAIN d.v}
    ELSE {}

Shaped(dat) == dat.t = "list" /\ Len(dat.v) = 2 /\ dat.v[2].t = "list"

\* C10: fixup of a document that is not [payload, keyNames] fails; and fixup
\* fails when an object of the payload has a key that is not an integer k
\* with 0 <= k < len(keyNames).
C10_FixupRange ==
    pc \in {"fixed", "error"} =>
       /\ ~Shaped(data) => fixed.t = "raise"
       /\ ( /\ Shaped(data)
            /\ \E k \in AllKeys(data.v[1]) :
                  ~(k.t = "int" /\ 0 <= k.v /\ k.v < Len(data.v[2].v)) ) =>
             fixed.t = "raise"

====
